---------------------------- MODULE Spec2Model ----------------------------
(***************************************************************************)
(* Rate control for video encoders (libavcodec/ratecontrol.c).             *)
(*                                                                         *)
(* Numbers.  The C code computes in double/float.  Here every quantity     *)
(* that is fractional in the code (qscale, bit estimates, predictor        *)
(* terms) is a fixed-point integer counted in units of 1/FP; quantities    *)
(* the code keeps in int/uint64_t (frame sizes, buffer sizes, bit          *)
(* budgets, stats fields) are plain integers.  Names ending in _fp are     *)
(* fixed-point.  Conversions double -> int truncate, as in C.              *)
(***************************************************************************)
EXTENDS Integers, Sequences, FiniteSets, TLC

\* cfg: the configuration; rcc: the RateControlContext; pc: the phase of
\* the session; loop: the locals of the search loop of init_pass2; call: the
\* last call into rate control and what it returned; enc: the encoder's
\* state that rate control reads (MpegEncContext and the current Picture).
VARIABLES cfg, rcc, pc, loop, call, enc

vars == <<cfg, rcc, pc, loop, call, enc>>

-----------------------------------------------------------------------------
(* Arithmetic helpers *)

FP == 2^6

Min(a, b) == IF a < b THEN a ELSE b
Max(a, b) == IF a > b THEN a ELSE b
FFABS(a) == IF a < 0 THEN -a ELSE a
FFMAX(a, b) == IF a > b THEN a ELSE b

\* C conversion of a quotient to int: truncation toward zero.
TruncDiv(a, b) == IF a >= 0 THEN a \div b ELSE -((-a) \div b)

\* floor(a * b / c) for a, b >= 0, c > 0 without forming a * b.
MulDiv(a, b, c) == (a \div c) * b + ((a % c) * b) \div c

\* ceil(a / b) for b > 0.
CeilDiv(a, b) == -((-a) \div b)

\* av_clip(a, amin, amax)
av_clip(a, amin, amax) ==
    IF a < amin THEN amin ELSE IF a > amax THEN amax ELSE a

-----------------------------------------------------------------------------
(* Program constants *)

FF_QP2LAMBDA == 118
FF_LAMBDA_MAX == 32767
AV_PICTURE_TYPE_I == 1
AV_PICTURE_TYPE_P == 2
AV_PICTURE_TYPE_B == 3
AV_PICTURE_TYPE_S == 4

-----------------------------------------------------------------------------
(* ff_vbv_update *)

\* min_rate / max_rate of ff_vbv_update and modify_qscale, as passed to
\* av_clip (an int parameter): rc_min_rate / fps truncated.
MinRateInt(c) == TruncDiv(c.rc_min_rate, c.fps)
MaxRateInt(c) == TruncDiv(c.rc_max_rate, c.fps)

\* The stuffing byte count of one overflow (lines 734-737).
VbvStuffing(c, over) ==
    LET stuffing == CeilDiv(over, 8)
    IN  IF stuffing < 4 /\ c.codec_mpeg4 THEN 4 ELSE stuffing

\* The underflow clamp of lines 725-728.
VbvDrain_NoClamp(bi, frame_size) == bi - frame_size
VbvDrain(bi, frame_size) ==
    IF bi - frame_size < 0 THEN 0 ELSE bi - frame_size

\* ff_vbv_update(rcc, frame_size): the new buffer_index and the return value.
VbvUpdate(c, buffer_index, frame_size) ==
    LET Stuff(b2, stuffing) ==
            [buffer_index |-> b2 - 8 * stuffing, ret |-> stuffing]
        Overflow(b2) ==
            IF b2 > c.rc_buffer_size
            THEN Stuff(b2, VbvStuffing(c, b2 - c.rc_buffer_size))
            ELSE [buffer_index |-> b2, ret |-> 0]
        Refill(b1) ==
            Overflow(b1 + av_clip(c.rc_buffer_size - b1 - 1,
                                  MinRateInt(c), MaxRateInt(c)))
    IN  IF c.rc_buffer_size # 0
        THEN Refill(VbvDrain(buffer_index, frame_size))
        ELSE [buffer_index |-> buffer_index, ret |-> 0]

-----------------------------------------------------------------------------
(* Configuration: the fields of AVCodecContext and the option fields of    *)
(* RateControlContext that rate control reads.  Factors are in hundredths  *)
(* (_c), qblur in halves (_x2), offsets in fixed point (_fp).              *)

DefaultCfg ==
    [ flags_pass2 |-> FALSE,
      bit_rate |-> 2500, fps |-> 25, bit_rate_tolerance |-> 4000,
      rc_buffer_size |-> 0, rc_min_rate |-> 0, rc_max_rate |-> 0,
      rc_initial_buffer_occupancy |-> 0, codec_mpeg4 |-> FALSE,
      rc_min_vbv_overflow_use |-> 3, rc_max_available_vbv_use_inv |-> 3,
      qblur_x2 |-> 1, max_qdiff |-> 3,
      i_quant_factor_c |-> -80, i_quant_offset_fp |-> 0,
      b_quant_factor_c |-> 125, b_quant_offset_fp |-> (5 * FP) \div 4,
      lmin |-> 2 * FF_QP2LAMBDA, lmax |-> 31 * FF_QP2LAMBDA,
      rc_qmod_freq |-> 0, rc_qmod_amp_c |-> 100,
      rc_overrides |-> << >>, stats_in |-> << >>, max_b_frames |-> 0,
      mb_num |-> 10, rc_initial_cplx |-> 0, intra_only |-> FALSE,
      rc_eq_ok |-> TRUE, adaptive_quant |-> FALSE ]

\* The encoder before the first picture: s->picture_number, s->total_bits,
\* s->frame_bits, the type of the last coded picture, the picture being
\* coded (<< >>: none), and the ff_rate_estimate_qscale calls made for it.
EncStart ==
    [ picture_number |-> 0, total_bits |-> 0, frame_bits |-> 0,
      last_pict_type |-> 0, pic |-> << >>, dry_runs |-> 0,
      estimated |-> FALSE ]

\* The context as allocated (zeroed) before ff_rate_control_init.
RccZero ==
    [ num_entries |-> 0, entry |-> << >>, entry_state |-> "null",
      buffer_index |-> 0,
      pred |-> [t \in 0..4 |-> [coeff_fp |-> 0, count_fp |-> 0, decay_c |-> 0]],
      short_term_qsum_m |-> 0, short_term_qcount_m |-> 0,
      pass1_rc_eq_output_sum_m |-> 0, pass1_wanted_bits_m |-> 0,
      last_qscale_fp |-> 0,
      last_qscale_for |-> [t \in 0..4 |-> 0],
      last_mc_mb_var_sum |-> 0, last_mb_var_sum |-> 0,
      i_cplx_sum |-> [t \in 0..4 |-> 0], p_cplx_sum |-> [t \in 0..4 |-> 0],
      mv_bits_sum |-> [t \in 0..4 |-> 0], qscale_sum |-> [t \in 0..4 |-> 0],
      frame_count |-> [t \in 0..4 |-> 0],
      last_non_b_pict_type |-> 0,
      rc_eq_eval |-> "null",
      rc_override |-> << >>, rc_override_state |-> "null",
      rc_override_count |-> 0 ]

-----------------------------------------------------------------------------
(* Fixed-point forms of the double operations used below *)

\* Stand-in for +infinity and for "larger than any qscale the clamps let
\* through" (FF_LAMBDA_MAX * FP < FpInf).
FpInf == 2^30

\* a * b / c, sign-symmetric, saturating at +-FpInf; b >= 0, c > 0.
SatMulDiv(a, b, c) ==
    LET m == FFABS(a)
        r == IF b # 0 /\ m \div c >= FpInf \div b
             THEN FpInf
             ELSE Min(FpInf, MulDiv(m, b, c))
    IN  IF a < 0 THEN -r ELSE r

\* rce->qscale * (double)(rce->i_tex_bits + rce->p_tex_bits + 1)
QpBitsProduct(rce) == rce.qscale * (rce.i_tex_bits + rce.p_tex_bits + 1)

\* The quotient of qp2bits / bits2qp: product / x with x in fixed point,
\* result in fixed point (division by zero gives +infinity).
QpBitsQuot(rce, x_fp) ==
    LET Quot(x) ==
            IF x >= 2^24 THEN (QpBitsProduct(rce) * FP) \div (x \div FP)
            ELSE SatMulDiv(QpBitsProduct(rce) * FP, FP, x)
    IN  IF x_fp = 0 THEN FpInf
        ELSE IF x_fp > 0 THEN Quot(x_fp)
        ELSE -Quot(-x_fp)

qp2bits(rce, qp_fp) == QpBitsQuot(rce, qp_fp)

bits2qp(rce, bits_fp) == QpBitsQuot(rce, bits_fp)

\* The same quotients as exact fractions [n, d] (d = 0: the division by
\* zero of the code): product / (x.n / x.d).  The rounding of each double
\* division (half an ulp) is not represented.
qp2bits_exact(rce, qp) ==
    [n |-> QpBitsProduct(rce) * qp.d, d |-> qp.n]

bits2qp_exact_TexOnly(rce, bits) ==
    [n |-> rce.qscale * (rce.i_tex_bits + rce.p_tex_bits) * bits.d, d |-> bits.n]
bits2qp_exact(rce, bits) ==
    [n |-> QpBitsProduct(rce) * bits.d, d |-> bits.n]

-----------------------------------------------------------------------------
(* get_diff_limited_q *)

\* const int maxdiff = FF_QP2LAMBDA * avctx->max_qdiff (line 81), fixed point.
MaxDiffFp(c) == FF_QP2LAMBDA * c.max_qdiff * FP

\* Lines 83-86.
DiffClamp_UpperOnly(c, q_fp, last_q_fp) ==
    IF q_fp > last_q_fp + MaxDiffFp(c) THEN last_q_fp + MaxDiffFp(c) ELSE q_fp
DiffClamp(c, q_fp, last_q_fp) ==
    IF q_fp > last_q_fp + MaxDiffFp(c) THEN last_q_fp + MaxDiffFp(c)
    ELSE IF q_fp < last_q_fp - MaxDiffFp(c) THEN last_q_fp - MaxDiffFp(c)
    ELSE q_fp

\* Lines 69-76: the candidate q derived from the last P / non-B qscale.
ChainedQ(c, last_qscale_for, last_non_b_pict_type, pict_type, q_fp) ==
    LET AtLeastOne(q) == IF q < 1 * FP THEN 1 * FP ELSE q
    IN  AtLeastOne(
          IF pict_type = AV_PICTURE_TYPE_I /\
             (c.i_quant_factor_c > 0 \/ last_non_b_pict_type = AV_PICTURE_TYPE_P)
          THEN SatMulDiv(last_qscale_for[AV_PICTURE_TYPE_P],
                         FFABS(c.i_quant_factor_c), 100) + c.i_quant_offset_fp
          ELSE IF pict_type = AV_PICTURE_TYPE_B /\ c.b_quant_factor_c > 0
          THEN SatMulDiv(last_qscale_for[last_non_b_pict_type],
                         c.b_quant_factor_c, 100) + c.b_quant_offset_fp
          ELSE q_fp)

\* get_diff_limited_q(rcc, rce, q) on the history (last_qscale_for,
\* last_non_b_pict_type): the returned q and the updated history.
get_diff_limited_q(c, last_qscale_for, last_non_b_pict_type, pict_type, q_fp) ==
    LET Result(q) ==
            [ q |-> q,
              last_qscale_for |-> [last_qscale_for EXCEPT ![pict_type] = q],
              last_non_b_pict_type |->
                  IF pict_type # AV_PICTURE_TYPE_B THEN pict_type
                  ELSE last_non_b_pict_type ]
        Limit(q) ==
            IF last_non_b_pict_type = pict_type \/ pict_type # AV_PICTURE_TYPE_I
            THEN Result(DiffClamp(c, q, last_qscale_for[pict_type]))
            ELSE Result(q)
    IN  Limit(ChainedQ(c, last_qscale_for, last_non_b_pict_type, pict_type, q_fp))

-----------------------------------------------------------------------------
(* get_qminmax *)

\* (int)(q * FFABS(factor) + offset + 0.5), lines 110-115.
ScaleQ(q, factor_c, offset_fp) ==
    TruncDiv(q * FFABS(factor_c) * FP + offset_fp * 100 + 50 * FP, 100 * FP)

get_qminmax_NoClip(c, pict_type) ==
    LET Order(qmin, qmax) ==
            [qmin |-> qmin, qmax |-> IF qmax < qmin THEN qmin ELSE qmax]
    IN  IF pict_type = AV_PICTURE_TYPE_B
        THEN Order(ScaleQ(c.lmin, c.b_quant_factor_c, c.b_quant_offset_fp),
                   ScaleQ(c.lmax, c.b_quant_factor_c, c.b_quant_offset_fp))
        ELSE IF pict_type = AV_PICTURE_TYPE_I
        THEN Order(ScaleQ(c.lmin, c.i_quant_factor_c, c.i_quant_offset_fp),
                   ScaleQ(c.lmax, c.i_quant_factor_c, c.i_quant_offset_fp))
        ELSE Order(c.lmin, c.lmax)
get_qminmax(c, pict_type) ==
    LET Order(qmin, qmax) ==
            [qmin |-> qmin, qmax |-> IF qmax < qmin THEN qmin ELSE qmax]
        Clip(qmin, qmax) ==
            Order(av_clip(qmin, 1, FF_LAMBDA_MAX), av_clip(qmax, 1, FF_LAMBDA_MAX))
    IN  IF pict_type = AV_PICTURE_TYPE_B
        THEN Clip(ScaleQ(c.lmin, c.b_quant_factor_c, c.b_quant_offset_fp),
                  ScaleQ(c.lmax, c.b_quant_factor_c, c.b_quant_offset_fp))
        ELSE IF pict_type = AV_PICTURE_TYPE_I
        THEN Clip(ScaleQ(c.lmin, c.i_quant_factor_c, c.i_quant_offset_fp),
                  ScaleQ(c.lmax, c.i_quant_factor_c, c.i_quant_offset_fp))
        ELSE Clip(c.lmin, c.lmax)

-----------------------------------------------------------------------------
(* modify_qscale, for rc_buffer_aggressivity = 1.0 (pow(d, 1.0) = d) and   *)
(* rc_qsquish = 0.0 (the hard clamp of lines 195-199).                     *)

\* Lines 153-171: q scaled by the depletion ratio d in [0.0001, 1], then
\* capped by q_limit.
VbvMinRate(c, rce, q_fp, buffer_index) ==
    LET Cap(qd, q_limit) == IF qd > q_limit THEN q_limit ELSE qd
    IN  Cap(IF 2 * (c.rc_buffer_size - buffer_index) > c.rc_buffer_size
            THEN q_fp
            ELSE IF 2 * (c.rc_buffer_size - buffer_index) * 10000
                    < c.rc_buffer_size
            THEN SatMulDiv(q_fp, 1, 10000)
            ELSE SatMulDiv(q_fp, 2 * (c.rc_buffer_size - buffer_index),
                           c.rc_buffer_size),
            bits2qp(rce,
                FFMAX(((c.rc_min_rate * FP) \div c.fps
                       - c.rc_buffer_size * FP + buffer_index * FP)
                      * c.rc_min_vbv_overflow_use, 1 * FP)))

\* Lines 173-190.
VbvMaxRate(c, rce, q_fp, buffer_index) ==
    LET Floor(qd, q_limit) == IF qd < q_limit THEN q_limit ELSE qd
    IN  Floor(IF 2 * buffer_index > c.rc_buffer_size
              THEN q_fp
              ELSE IF 2 * buffer_index * 10000 < c.rc_buffer_size
              THEN SatMulDiv(q_fp, 10000, 1)
              ELSE SatMulDiv(q_fp, c.rc_buffer_size, 2 * buffer_index),
              bits2qp(rce,
                  FFMAX((buffer_index * FP) \div c.rc_max_available_vbv_use_inv,
                        1 * FP)))

\* Lines 195-199.
ClampQ(q_fp, qmin, qmax) ==
    IF q_fp < qmin * FP THEN qmin * FP
    ELSE IF q_fp > qmax * FP THEN qmax * FP
    ELSE q_fp

modify_qscale(c, rce, q_fp, frame_num, buffer_index) ==
    LET Clamp(q, mm) == ClampQ(q, mm.qmin, mm.qmax)
        MaxRate(q) ==
            IF c.rc_buffer_size # 0 /\ c.rc_max_rate # 0
            THEN Clamp(VbvMaxRate(c, rce, q, buffer_index),
                       get_qminmax(c, rce.new_pict_type))
            ELSE Clamp(q, get_qminmax(c, rce.new_pict_type))
        MinRate(q) ==
            IF c.rc_buffer_size # 0 /\ c.rc_min_rate # 0
            THEN MaxRate(VbvMinRate(c, rce, q, buffer_index))
            ELSE MaxRate(q)
    IN  IF c.rc_qmod_freq # 0 /\ frame_num % c.rc_qmod_freq = 0 /\
           rce.new_pict_type = AV_PICTURE_TYPE_P
        THEN MinRate(SatMulDiv(q_fp, c.rc_qmod_amp_c, 100))
        ELSE MinRate(q_fp)

-----------------------------------------------------------------------------
(* parse_overrides.  rcc->rc_overrides is a sequence of '/'-separated      *)
(* items; an item is the sequence of integers that sscanf("%d,%d,%d")      *)
(* finds at its start (<< >> for the whole string: a NULL pointer).        *)

\* Stand-in for the negated error tag AVERROR_INVALIDDATA as a double: a
\* negative value far below every qscale minus maxdiff.
AVERROR_INVALIDDATA_fp == -(2^16) * FP

\* int e = sscanf(p, "%d,%d,%d", &start, &end, &q) (line 224).
SscanfOverride(item) == Min(Len(item), 3)

\* Lines 225-229: an item is rejected unless sscanf converted three fields.
OverrideItemBad(item) == SscanfOverride(item) # 3

\* Lines 240-249.
MakeOverride_NoPercent(item) ==
    IF item[3] > 0
    THEN [start_frame |-> item[1], end_frame |-> item[2],
          qscale |-> item[3], quality_factor_c |-> 100]
    ELSE [start_frame |-> item[1], end_frame |-> item[2],
          qscale |-> 0, quality_factor_c |-> -item[3] * 100]
MakeOverride(item) ==
    IF item[3] > 0
    THEN [start_frame |-> item[1], end_frame |-> item[2],
          qscale |-> item[3], quality_factor_c |-> 100]
    ELSE [start_frame |-> item[1], end_frame |-> item[2],
          qscale |-> 0, quality_factor_c |-> -item[3]]

\* parse_overrides(rcc): ret and the context it leaves (on an error the
\* list is freed and rc_override_count is not written).
parse_overrides(c, r) ==
    IF \E k \in 1..Len(c.rc_overrides) : OverrideItemBad(c.rc_overrides[k])
    THEN [ret |-> AVERROR_INVALIDDATA_fp,
          rcc |-> [r EXCEPT !.rc_override = << >>,
                            !.rc_override_state = "null"]]
    ELSE [ret |-> 0,
          rcc |-> [r EXCEPT !.rc_override =
                                [k \in 1..Len(c.rc_overrides) |->
                                     MakeOverride(c.rc_overrides[k])],
                            !.rc_override_state =
                                IF Len(c.rc_overrides) > 0 THEN "live"
                                ELSE r.rc_override_state,
                            !.rc_override_count = Len(c.rc_overrides)]]

-----------------------------------------------------------------------------
(* get_qscale.  rate_factor is [int, frac]: int + frac / RfUnit.  The      *)
(* value of the rate equation on an entry (av_expr_eval, line 294) is an   *)
(* input carried with the entry: eq_nan (the evaluation gave NaN) or eq.   *)

RfUnit == 2^23

\* bits *= rate_factor; if (bits < 0.0) bits = 0.0; bits += 1.0 (302-305).
ScaledBits(eq, rf) ==
    LET b == eq * rf.int * FP + (eq * rf.frac) \div (RfUnit \div FP)
    IN  (IF b < 0 THEN 0 ELSE b) + 1 * FP

\* Lines 312-323: the overrides covering frame_num applied in list order.
RECURSIVE ApplyOverrides_FirstWins(_, _, _, _, _)
ApplyOverrides_FirstWins(rce, rco, i, frame_num, bits_fp) ==
    IF i > Len(rco) THEN bits_fp
    ELSE IF rco[i].start_frame > frame_num \/ rco[i].end_frame < frame_num
    THEN ApplyOverrides_FirstWins(rce, rco, i + 1, frame_num, bits_fp)
    ELSE IF rco[i].qscale # 0
    THEN qp2bits(rce, rco[i].qscale * FP)
    ELSE SatMulDiv(bits_fp, rco[i].quality_factor_c, 100)

RECURSIVE ApplyOverrides(_, _, _, _, _)
ApplyOverrides(rce, rco, i, frame_num, bits_fp) ==
    IF i > Len(rco) THEN bits_fp
    ELSE IF rco[i].start_frame > frame_num \/ rco[i].end_frame < frame_num
    THEN ApplyOverrides(rce, rco, i + 1, frame_num, bits_fp)
    ELSE IF rco[i].qscale # 0
    THEN ApplyOverrides(rce, rco, i + 1, frame_num,
                        qp2bits(rce, rco[i].qscale * FP))
    ELSE ApplyOverrides(rce, rco, i + 1, frame_num,
                        SatMulDiv(bits_fp, rco[i].quality_factor_c, 100))

\* Lines 344-350.
IBDifference_NoFloor(c, pict_type, q_fp) ==
    IF pict_type = AV_PICTURE_TYPE_I /\ c.i_quant_factor_c < 0
    THEN SatMulDiv(q_fp, -c.i_quant_factor_c, 100) + c.i_quant_offset_fp
    ELSE IF pict_type = AV_PICTURE_TYPE_B /\ c.b_quant_factor_c < 0
    THEN SatMulDiv(q_fp, -c.b_quant_factor_c, 100) + c.b_quant_offset_fp
    ELSE q_fp
IBDifference(c, pict_type, q_fp) ==
    LET AtLeastOne(q) == IF q < 1 * FP THEN 1 * FP ELSE q
    IN  AtLeastOne(
          IF pict_type = AV_PICTURE_TYPE_I /\ c.i_quant_factor_c < 0
          THEN SatMulDiv(q_fp, -c.i_quant_factor_c, 100) + c.i_quant_offset_fp
          ELSE IF pict_type = AV_PICTURE_TYPE_B /\ c.b_quant_factor_c < 0
          THEN SatMulDiv(q_fp, -c.b_quant_factor_c, 100) + c.b_quant_offset_fp
          ELSE q_fp)

\* Lines 295-299: the NaN test on the value of the rate equation.
EqIsNan_Never(rce) == FALSE
EqIsNan(rce) == rce.eq_nan

\* get_qscale(rcc, rce, rate_factor, frame_num): the value returned, the bit
\* estimate handed to bits2qp, and the context it leaves
\* (pass1_rc_eq_output_sum is kept in thousandths).
get_qscale(c, r, rce, rf, frame_num) ==
    LET Convert(po, bits) ==
            [ret |-> IBDifference(c, rce.new_pict_type, bits2qp(rce, bits)),
             bits |-> bits, rcc |-> po.rcc]
        Override(po) ==
            IF po.ret < 0
            THEN [ret |-> po.ret, bits |-> 0, rcc |-> po.rcc]
            ELSE Convert(po, ApplyOverrides(rce, po.rcc.rc_override, 1,
                                            frame_num, ScaledBits(rce.eq, rf)))
    IN  IF EqIsNan(rce)
        THEN [ret |-> -1 * FP, bits |-> 0, rcc |-> r]
        ELSE Override(parse_overrides(c,
                 [r EXCEPT !.pass1_rc_eq_output_sum_m = @ + rce.eq * 1000]))

-----------------------------------------------------------------------------
(* init_pass2.  Frame i of the code is entry[i + 1] here.                  *)

\* Lines 372-384: the sums over the entries, and const_bits[] per type.
RECURSIVE Pass2Sums(_, _, _)
Pass2Sums(r, i, const_bits) ==
    IF i > r.num_entries THEN [rcc |-> r, const_bits |-> const_bits]
    ELSE LET Add(rce, t) ==
                 Pass2Sums(
                     [r EXCEPT
                        !.entry[i].new_pict_type = t,
                        !.i_cplx_sum[t] = @ + rce.i_tex_bits * rce.qscale,
                        !.p_cplx_sum[t] = @ + rce.p_tex_bits * rce.qscale,
                        !.mv_bits_sum[t] = @ + rce.mv_bits,
                        !.frame_count[t] = @ + 1],
                     i + 1,
                     [const_bits EXCEPT ![t] = @ + rce.mv_bits + rce.misc_bits])
         IN  Add(r.entry[i], r.entry[i].pict_type)

\* Lines 386-388.
AllConstBits(const_bits) ==
    const_bits[AV_PICTURE_TYPE_I] + const_bits[AV_PICTURE_TYPE_P]
    + const_bits[AV_PICTURE_TYPE_B]

\* Lines 363-364.
AllAvailableBits(c, r) == (c.bit_rate * r.num_entries) \div c.fps

\* Lines 411-416: qscale[i] for every frame, ascending.
RECURSIVE FindQscale(_, _, _, _, _)
FindQscale(c, r, rf, i, qs) ==
    IF i > r.num_entries THEN [rcc |-> r, qscale |-> qs]
    ELSE LET Store(g) ==
                 FindQscale(c,
                     [g.rcc EXCEPT !.last_qscale_for[r.entry[i].pict_type] = g.ret],
                     rf, i + 1, Append(qs, g.ret))
         IN  Store(get_qscale(c, r, r.entry[i], rf, i - 1))

\* Lines 420-424: the diff-limiter, descending.
RECURSIVE DiffLimitAll_Ascending(_, _, _, _)
DiffLimitAll_Ascending(c, r, i, qs) ==
    IF i < 1 THEN [rcc |-> r, qscale |-> qs]
    ELSE LET Store(k, d) ==
                 DiffLimitAll_Ascending(c,
                     [r EXCEPT !.last_qscale_for = d.last_qscale_for,
                               !.last_non_b_pict_type = d.last_non_b_pict_type],
                     i - 1, [qs EXCEPT ![k] = d.q])
             At(k) == Store(k, get_diff_limited_q(c, r.last_qscale_for,
                                                  r.last_non_b_pict_type,
                                                  r.entry[k].new_pict_type, qs[k]))
         IN  At(r.num_entries + 1 - i)
RECURSIVE DiffLimitAll(_, _, _, _)
DiffLimitAll(c, r, i, qs) ==
    IF i < 1 THEN [rcc |-> r, qscale |-> qs]
    ELSE LET Store(d) ==
                 DiffLimitAll(c,
                     [r EXCEPT !.last_qscale_for = d.last_qscale_for,
                               !.last_non_b_pict_type = d.last_non_b_pict_type],
                     i - 1, [qs EXCEPT ![i] = d.q])
         IN  Store(get_diff_limited_q(c, r.last_qscale_for,
                                      r.last_non_b_pict_type,
                                      r.entry[i].new_pict_type, qs[i]))

\* const int filter_size = (int)(avctx->qblur * 4) | 1 (line 367).
FilterSize(c) ==
    LET n == (c.qblur_x2 * 4) \div 2 IN IF n % 2 = 0 THEN n + 1 ELSE n

\* exp(-d * d / (qblur * qblur)) (line 436) in units of 1 / FP, rounded,
\* for qblur in {0.5, 1.0, 1.5}; 1.0 when qblur == 0.
BlurCoeff(c, d) ==
    LET a == FFABS(d)
    IN  IF c.qblur_x2 = 0 \/ a = 0 THEN FP
        ELSE IF c.qblur_x2 = 1 THEN (IF a = 1 THEN 1 ELSE 0)
        ELSE IF c.qblur_x2 = 2 THEN (IF a = 1 THEN 24 ELSE IF a = 2 THEN 1 ELSE 0)
        ELSE (IF a = 1 THEN 41 ELSE IF a = 2 THEN 11 ELSE IF a = 3 THEN 1 ELSE 0)

\* The window positions j of lines 433-441 that are in range and of the
\* same picture type as frame i.
BlurWindow(c, r, i) ==
    { j \in 0..(FilterSize(c) - 1) :
        /\ i + j - FilterSize(c) \div 2 >= 1
        /\ i + j - FilterSize(c) \div 2 <= r.num_entries
        /\ r.entry[i].new_pict_type =
               r.entry[i + j - FilterSize(c) \div 2].new_pict_type }

\* Lines 442-443: q and sum over the window positions j in S.
RECURSIVE BlurAcc(_, _, _, _)
BlurAcc(c, qs, i, S) ==
    IF S = {} THEN [q |-> 0, sum |-> 0]
    ELSE LET Add(j, index, rest) ==
                 [q |-> rest.q + qs[index] * BlurCoeff(c, index - i),
                  sum |-> rest.sum + BlurCoeff(c, index - i)]
             Pick(j) == Add(j, i + j - FilterSize(c) \div 2,
                            BlurAcc(c, qs, i, S \ {j}))
         IN  Pick(CHOOSE x \in S : TRUE)

\* Lines 427-446: blurred_qscale[i] = q / sum.
BlurredQscale(c, r, qs, i) ==
    LET Quot(t) == IF t.q >= 0 THEN t.q \div t.sum ELSE -((-t.q) \div t.sum)
    IN  Quot(BlurAcc(c, qs, i, BlurWindow(c, r, i)))

\* Lines 449-460: new_qscale and expected_bits of every entry, and the total.
RECURSIVE ExpectedBits(_, _, _, _, _)
ExpectedBits(c, r, blurred, i, expected_fp) ==
    IF i > r.num_entries THEN [rcc |-> r, expected_bits_fp |-> expected_fp]
    ELSE LET Store(nq, bits, v) ==
                 ExpectedBits(c,
                     [r EXCEPT !.entry[i].new_qscale_fp = nq,
                               !.entry[i].expected_bits = TruncDiv(expected_fp, FP),
                               !.buffer_index = v.buffer_index],
                     blurred, i + 1, expected_fp + bits + 8 * v.ret * FP)
             Vbv(nq, bits) ==
                 Store(nq, bits, VbvUpdate(c, r.buffer_index, TruncDiv(bits, FP)))
             Bits(nq) ==
                 Vbv(nq, qp2bits(r.entry[i], nq)
                         + (r.entry[i].mv_bits + r.entry[i].misc_bits) * FP)
         IN  Bits(modify_qscale(c, r.entry[i], blurred[i], i - 1, r.buffer_index))

\* The body of one iteration of the loop of line 404, up to line 460; found
\* and limited are qscale[] after the loops of lines 411-416 and 420-424.
Pass2Trial(c, r, rf) ==
    LET Out(f, d, x) ==
            [ rcc |-> x.rcc, expected_bits_fp |-> x.expected_bits_fp,
              found |-> f.qscale, limited |-> d.qscale ]
        Expect(f, d, bl) == Out(f, d, ExpectedBits(c, d.rcc, bl, 1, 0))
        Blur(f, d) ==
            Expect(f, d, [i \in 1..r.num_entries |->
                              BlurredQscale(c, d.rcc, d.qscale, i)])
        Limit(f) == Blur(f, DiffLimitAll(c, f.rcc, r.num_entries, f.qscale))
    IN  Limit(FindQscale(c, [r EXCEPT !.buffer_index = c.rc_buffer_size \div 2],
                         rf, 1, << >>))

\* for (step = 256 * 256; step > 0.0000001; step *= 0.5): step is
\* 2^step_e; the loop condition on the exponent.
StepAboveEps_Longer(step_e) ==
    IF step_e >= 0 THEN TRUE ELSE 2^(-step_e) < 100000000
StepAboveEps(step_e) ==
    IF step_e >= 0 THEN TRUE ELSE 2^(-step_e) < 10000000

\* rate_factor += step / rate_factor -= step on [int, frac].
RfAdd(rf, step_e) ==
    IF step_e >= 0 THEN [rf EXCEPT !.int = @ + 2^step_e]
    ELSE [rf EXCEPT !.frac = @ + RfUnit \div 2^(-step_e)]

\* Line 465.
TooBig_Never(expected_fp, available) == FALSE
TooBig(expected_fp, available) == expected_fp > available * FP

\* Line 500: fabs(expected_bits / all_available_bits - 1.0) > 0.01.
OffTarget(expected_fp, available) ==
    FFABS(expected_fp - available * FP) > available * FP
    \/ FFABS(expected_fp - available * FP) * 100 > available * FP

\* Lines 491-506: the value init_pass2 returns after the loop.
Pass2Verdict_TooBigOk(toobig, expected_fp, available) ==
    IF toobig = 0 THEN 0
    ELSE IF toobig = 40 THEN 0
    ELSE IF OffTarget(expected_fp, available) THEN -1
    ELSE 0
Pass2Verdict(toobig, expected_fp, available) ==
    IF toobig = 0 THEN 0
    ELSE IF toobig = 40 THEN -1
    ELSE IF OffTarget(expected_fp, available) THEN -1
    ELSE 0

\* The loop variables of init_pass2 before the first iteration
\* (lines 365, 402, 404).
Pass2LoopStart(available) ==
    [ step_e |-> 16, rate_factor |-> [int |-> 0, frac |-> 0], toobig |-> 0,
      trials |-> 0, expected_bits_fp |-> 0, all_available_bits |-> available,
      found |-> << >>, limited |-> << >> ]

\* One iteration of the loop of line 404: the trial with rate_factor + step,
\* the back-off of lines 465-468, and step *= 0.5.
Pass2Step(c, r, lp) ==
    LET Decide(rf, t, big) ==
            [ rcc |-> t.rcc,
              loop |-> [lp EXCEPT !.step_e = @ - 1,
                                  !.rate_factor = IF big THEN lp.rate_factor ELSE rf,
                                  !.toobig = IF big THEN @ + 1 ELSE @,
                                  !.trials = @ + 1,
                                  !.expected_bits_fp = t.expected_bits_fp,
                                  !.found = t.found,
                                  !.limited = t.limited] ]
        Judge(rf, t) ==
            Decide(rf, t, TooBig(t.expected_bits_fp, lp.all_available_bits))
        Try(rf) == Judge(rf, Pass2Trial(c, r, rf))
    IN  Try(RfAdd(lp.rate_factor, lp.step_e))

-----------------------------------------------------------------------------
(* ff_rate_control_uninit *)

\* Lines 705-707.  av_expr_free() takes the pointer by value: rc_eq_eval
\* keeps pointing at the freed expression, and a later call hands the
\* dangling pointer to av_expr_free() again ("freed_twice").
ff_rate_control_uninit(r) ==
    [r EXCEPT !.rc_eq_eval = IF @ = "null" THEN "null"
                             ELSE IF @ = "live" THEN "freed"
                             ELSE "freed_twice",
              !.entry = << >>, !.entry_state = "null",
              !.rc_override = << >>, !.rc_override_state = "null"]

\* The outcomes of a call on the context r: "closed", and "crashed" when
\* the expression is freed twice.
UninitOutcomes(r) ==
    IF r.rc_eq_eval = "freed" THEN {"closed", "crashed"} ELSE {"closed"}

-----------------------------------------------------------------------------
(* ff_rate_control_init *)

\* Lines 558-571.
InitCommon(c, r) ==
    [r EXCEPT !.rc_eq_eval = "live",
              !.pred = [t \in 0..4 |->
                           [coeff_fp |-> FF_QP2LAMBDA * 7 * FP, count_fp |-> 1 * FP,
                            decay_c |-> 40]],
              !.i_cplx_sum = [t \in 0..4 |-> 1],
              !.p_cplx_sum = [t \in 0..4 |-> 1],
              !.mv_bits_sum = [t \in 0..4 |-> 1],
              !.qscale_sum = [t \in 0..4 |-> 1],
              !.frame_count = [t \in 0..4 |-> 1],
              !.last_qscale_for = [t \in 0..4 |-> FF_QP2LAMBDA * 5 * FP],
              !.buffer_index = c.rc_initial_buffer_occupancy]

\* Lines 594-597: an entry initialised as a skipped P-frame.  The default
\* rate equation tex^qComp is 0 on it (no texture bits).
SkippedEntry(c) ==
    [ pict_type |-> AV_PICTURE_TYPE_P, new_pict_type |-> AV_PICTURE_TYPE_P,
      qscale |-> FF_QP2LAMBDA * 2, new_qscale_fp |-> FF_QP2LAMBDA * 2 * FP,
      i_tex_bits |-> 0, p_tex_bits |-> 0, mv_bits |-> 0,
      misc_bits |-> c.mb_num + 10, expected_bits |-> 0,
      eq |-> 0, eq_nan |-> FALSE ]

\* Lines 619-624: the entry a completely parsed stats line gives.
StatsEntry(c, line) ==
    [SkippedEntry(c) EXCEPT !.pict_type = line.pict_type,
                            !.qscale = line.qscale,
                            !.i_tex_bits = line.i_tex_bits,
                            !.p_tex_bits = line.p_tex_bits,
                            !.mv_bits = line.mv_bits,
                            !.misc_bits = line.misc_bits,
                            !.eq = line.eq, !.eq_nan = line.eq_nan]

\* Lines 625-630: a stats line is damaged unless 14 fields were converted.
StatsLineDamaged(line) == line.e # 14

\* Lines 613-617: when the first sscanf converts nothing, picture_number has
\* no value when the asserts and the entry lookup read it.
PictureNumberUnset(line) == line.e < 1

\* Lines 372-384: the values that index the per-picture-type arrays.
PictTypesIndexed(r) == { r.entry[i].pict_type : i \in 1..r.num_entries }

\* Lines 635-638 and the return of line 698 for two-pass mode.
Pass2Result(r, ret) ==
    IF ret < 0 THEN [ret |-> -1, rcc |-> ff_rate_control_uninit(r)]
    ELSE [ret |-> 0, rcc |-> r]

\* A return of ff_rate_control_init before or without the loop of init_pass2.
InitReturn(ret, r) ==
    [done |-> TRUE, ret |-> ret, rcc |-> r, loop |-> << >>, undefined |-> "none"]

\* ff_rate_control_init reaching an operation whose behaviour is undefined:
\* the read of picture_number without a value, or an index outside a
\* five-slot array.
InitUndefined(what, r) ==
    [done |-> TRUE, ret |-> -1, rcc |-> r, loop |-> << >>, undefined |-> what]

\* What the build can do there: the assert on picture_number aborts, or it
\* passes and line 625 returns -1; an access outside the arrays faults, or
\* reads and writes the neighbouring memory.
UndefinedOutcomes(what) ==
    IF what = "picture_number" THEN {"crashed", "init_failed"}
    ELSE {"crashed", "corrupted"}

\* Lines 579-598: the entry array, every entry a skipped P-frame.
AllocEntries(c, r, n) ==
    [r EXCEPT !.num_entries = n, !.entry_state = "live",
              !.entry = [i \in 1..n |-> SkippedEntry(c)]]

\* Lines 602-633: the stats lines parsed in order, up to the first damaged
\* line.
RECURSIVE ReadStats(_, _, _)
ReadStats(c, r, i) ==
    IF i > Len(c.stats_in) THEN [ret |-> 0, rcc |-> r, unset |-> FALSE]
    ELSE IF PictureNumberUnset(c.stats_in[i])
    THEN [ret |-> -1, rcc |-> r, unset |-> TRUE]
    ELSE IF StatsLineDamaged(c.stats_in[i])
    THEN [ret |-> -1, rcc |-> r, unset |-> FALSE]
    ELSE ReadStats(c, [r EXCEPT !.entry[i] = StatsEntry(c, c.stats_in[i])], i + 1)

\* init_pass2 up to the loop (lines 359-402).
Pass2Prologue(c, r) ==
    LET Check(ps, av) ==
            IF av < AllConstBits(ps.const_bits)
            THEN InitReturn(-1, ff_rate_control_uninit(ps.rcc))
            ELSE [done |-> FALSE, ret |-> 0, rcc |-> ps.rcc,
                  loop |-> Pass2LoopStart(av), undefined |-> "none"]
    IN  IF PictTypesIndexed(r) \subseteq 0..4
        THEN Check(Pass2Sums(r, 1, [t \in 0..4 |-> 0]), AllAvailableBits(c, r))
        ELSE InitUndefined("pict_type", r)

\* Lines 648-651: the qblur test of single-pass init.
QblurTooLarge_Never(c) == FALSE
QblurTooLarge(c) == c.qblur_x2 > 2

\* Lines 641-651 (with rc_initial_cplx == 0).
Pass1Init(c, r) ==
    LET Check(r2) ==
            IF QblurTooLarge(c) THEN InitReturn(-1, r2) ELSE InitReturn(0, r2)
    IN  Check([r EXCEPT !.short_term_qsum_m = 1, !.short_term_qcount_m = 1,
                        !.pass1_rc_eq_output_sum_m = 1,
                        !.pass1_wanted_bits_m = 1])

\* Lines 573-639.
Pass2Init(c, r) ==
    LET Stats(rs) ==
            IF rs.unset THEN InitUndefined("picture_number", rs.rcc)
            ELSE IF rs.ret < 0 THEN InitReturn(-1, rs.rcc)
            ELSE Pass2Prologue(c, rs.rcc)
    IN  IF Len(c.stats_in) + c.max_b_frames <= 0
        THEN InitReturn(-1, r)
        ELSE Stats(ReadStats(c,
                 AllocEntries(c, r, Len(c.stats_in) + c.max_b_frames), 1))

\* ff_rate_control_init up to the first iteration of the loop of init_pass2:
\* done = FALSE when the loop is to run (then loop holds its variables).
InitPrologue(c, r) ==
    IF ~c.rc_eq_ok THEN InitReturn(-1, r)
    ELSE IF c.flags_pass2 THEN Pass2Init(c, InitCommon(c, r))
    ELSE Pass1Init(c, InitCommon(c, r))

\* The end of init_pass2 (lines 470-506) and of ff_rate_control_init.
InitEpilogue(c, r, lp) ==
    Pass2Result(r, Pass2Verdict(lp.toobig, lp.expected_bits_fp,
                                lp.all_available_bits))

-----------------------------------------------------------------------------
(* predict_size, update_predictor *)

\* floor(sqrt(n)) by bisection: lo * lo <= n < (hi + 1) * (hi + 1).
RECURSIVE SqrtBisect(_, _, _)
SqrtBisect(n, lo, hi) ==
    IF lo >= hi THEN lo
    ELSE IF ((lo + hi + 1) \div 2) * ((lo + hi + 1) \div 2) <= n
    THEN SqrtBisect(n, (lo + hi + 1) \div 2, hi)
    ELSE SqrtBisect(n, lo, (lo + hi + 1) \div 2 - 1)

\* sqrt(v) of an int v >= 0, in fixed point.
sqrt_fp(v) == SqrtBisect(v * FP * FP, 0, 2^15)

\* predict_size(p, q, var) = p->coeff * var / (q * p->count), q an integer.
predict_size(p, q, var_fp) ==
    IF q * p.count_fp = 0 THEN FpInf
    ELSE SatMulDiv(p.coeff_fp, var_fp, q * p.count_fp)

\* Line 757: the predictor is left alone on a low-variance sample.
LowVariance_Never(var_fp) == FALSE
LowVariance(var_fp) == var_fp < 10 * FP

\* update_predictor(p, q, var, size).
update_predictor_NoIncrement(p, q_fp, var_fp, size) ==
    IF LowVariance(var_fp) THEN p
    ELSE [p EXCEPT !.count_fp = (@ * p.decay_c) \div 100,
                   !.coeff_fp = (@ * p.decay_c) \div 100
                                + SatMulDiv(q_fp, size * FP, var_fp + 1 * FP)]
update_predictor(p, q_fp, var_fp, size) ==
    IF LowVariance(var_fp) THEN p
    ELSE [p EXCEPT !.count_fp = (@ * p.decay_c) \div 100 + 1 * FP,
                   !.coeff_fp = (@ * p.decay_c) \div 100
                                + SatMulDiv(q_fp, size * FP, var_fp + 1 * FP)]

-----------------------------------------------------------------------------
(* ff_rate_estimate_qscale.  e is the encoder state (s->picture_number,    *)
(* s->total_bits, s->frame_bits, last_pict_type), pic the picture being    *)
(* coded: its type, its variance sums, its pts (dts_pic), and the value    *)
(* the rate equation takes on it in single-pass mode (eq, eq_nan).         *)

\* Stand-in for AV_NOPTS_VALUE, also used for dts_pic == NULL (line 936).
AV_NOPTS_VALUE == -(2^30)

\* Lines 920-926.
UpdatePredictors(r, e, dry_run) ==
    IF e.picture_number > 2 /\ ~dry_run
    THEN [r EXCEPT !.pred[e.last_pict_type] =
             update_predictor(@, r.last_qscale_fp,
                 sqrt_fp(IF e.last_pict_type = AV_PICTURE_TYPE_I
                         THEN r.last_mb_var_sum ELSE r.last_mc_mb_var_sum),
                 e.frame_bits)]
    ELSE r

\* Lines 928-940: wanted_bits.
WantedBits(c, r, e, pic) ==
    IF c.flags_pass2 THEN r.entry[e.picture_number + 1].expected_bits
    ELSE IF pic.pts = AV_NOPTS_VALUE
    THEN (c.bit_rate * e.picture_number) \div c.fps
    ELSE (c.bit_rate * pic.pts) \div c.fps

\* Lines 942-945: br_compensation as the fraction n / d.
BrFloor(c, diff) ==
    IF c.bit_rate_tolerance - diff <= 0 THEN [n |-> 1, d |-> 1000]
    ELSE [n |-> c.bit_rate_tolerance - diff, d |-> c.bit_rate_tolerance]

br_compensation(c, r, e, pic) == BrFloor(c, e.total_bits - WantedBits(c, r, e, pic))

\* Lines 958-977: the local entry of single-pass mode, from bits =
\* predict_size(&rcc->pred[pict_type], rce->qscale, sqrt(var)).
LocalEntry(pic, bits_fp) ==
    [ pict_type |-> pic.pict_type, new_pict_type |-> pic.pict_type,
      qscale |-> FF_QP2LAMBDA * 2, new_qscale_fp |-> 0,
      i_tex_bits |-> IF pic.pict_type = AV_PICTURE_TYPE_I
                     THEN TruncDiv(bits_fp, FP) ELSE 0,
      p_tex_bits |-> IF pic.pict_type = AV_PICTURE_TYPE_I THEN 0
                     ELSE TruncDiv(bits_fp * 9, 10 * FP),
      mv_bits |-> IF pic.pict_type = AV_PICTURE_TYPE_I THEN 0
                  ELSE TruncDiv(bits_fp, 10 * FP),
      misc_bits |-> 1, expected_bits |-> 0,
      eq |-> pic.eq, eq_nan |-> pic.eq_nan ]

\* Lines 979-982.
AddComplexity(r, rce) ==
    [r EXCEPT !.i_cplx_sum[rce.pict_type] = @ + rce.i_tex_bits * rce.qscale,
              !.p_cplx_sum[rce.pict_type] = @ + rce.p_tex_bits * rce.qscale,
              !.mv_bits_sum[rce.pict_type] = @ + rce.mv_bits,
              !.frame_count[rce.pict_type] = @ + 1]

\* The largest rate factor kept (the fixed-point range of [int, frac]).
RfCap == 2^30 - 1

\* Lines 985-986: pass1_wanted_bits / pass1_rc_eq_output_sum *
\* br_compensation, as [int, frac].
Pass1RateFactor(r, br) ==
    LET Split(x) == [int |-> x \div RfUnit, frac |-> x % RfUnit]
        Compensate(x) ==
            Split(Min(RfCap, SatMulDiv(x, br.n, br.d)))
        Ratio(w, s) ==
            IF w \div s >= 2^6 THEN Compensate(RfCap)
            ELSE Compensate((w \div s) * RfUnit
                            + (((w % s) * 2^10) \div s) * (RfUnit \div 2^10))
    IN  Ratio(r.pass1_wanted_bits_m, r.pass1_rc_eq_output_sum_m)

\* Lines 997-1004: the short-term average (qblur in halves, sums in
\* thousandths); q and the context.
ShortTermBlur(c, r, pict_type, q_fp) ==
    LET Avg(r2) ==
            [q |-> MulDiv(r2.short_term_qsum_m, FP, r2.short_term_qcount_m),
             rcc |-> r2]
    IN  IF pict_type = AV_PICTURE_TYPE_P \/ c.intra_only
        THEN Avg([r EXCEPT
                    !.short_term_qsum_m =
                        (@ * c.qblur_x2) \div 2 + SatMulDiv(q_fp, 1000, FP),
                    !.short_term_qcount_m = (@ * c.qblur_x2) \div 2 + 1000])
        ELSE [q |-> q_fp, rcc |-> r]

\* Lines 1026-1034: the clamp to [qmin, qmax] and the rounding.
FinalQ_NoClamp(c, q_fp, mm) ==
    IF c.adaptive_quant THEN q_fp ELSE ((q_fp + FP \div 2) \div FP) * FP
FinalQ(c, q_fp, mm) ==
    LET Round(q) ==
            IF c.adaptive_quant THEN q ELSE ((q + FP \div 2) \div FP) * FP
    IN  Round(ClampQ(q_fp, mm.qmin, mm.qmax))

\* Lines 1036-1040.
DryRunGuard(dry_run) == dry_run

RememberLast(r, pic, q_fp, dry_run) ==
    IF DryRunGuard(dry_run) THEN r
    ELSE [r EXCEPT !.last_qscale_fp = q_fp,
                   !.last_mc_mb_var_sum = pic.mc_mb_var_sum,
                   !.last_mb_var_sum = pic.mb_var_sum]

\* Lines 1026-1041.
EstimateReturn(c, r, pic, q_fp, dry_run) ==
    LET Return(q) == [ret_fp |-> q, rcc |-> RememberLast(r, pic, q, dry_run)]
    IN  Return(FinalQ(c, q_fp, get_qminmax(c, pic.pict_type)))

\* Lines 950-956: q of two-pass mode.
EstimatePass2_StoresQ(c, r, e, pic, dry_run) ==
    LET Divide(rce, br) ==
            EstimateReturn(c,
                [r EXCEPT !.entry[e.picture_number + 1].new_qscale_fp =
                              SatMulDiv(rce.new_qscale_fp, br.d, br.n)],
                pic, SatMulDiv(rce.new_qscale_fp, br.d, br.n), dry_run)
    IN  Divide(r.entry[e.picture_number + 1], br_compensation(c, r, e, pic))
EstimatePass2(c, r, e, pic, dry_run) ==
    LET Divide(rce, br) ==
            EstimateReturn(c, r, pic, SatMulDiv(rce.new_qscale_fp, br.d, br.n),
                           dry_run)
    IN  Divide(r.entry[e.picture_number + 1], br_compensation(c, r, e, pic))

\* Lines 958-1012: q of single-pass mode.
EstimatePass1(c, r, e, pic, dry_run) ==
    LET Finish(rce, st) ==
            EstimateReturn(c,
                [st.rcc EXCEPT !.pass1_wanted_bits_m =
                                   @ + (c.bit_rate * 1000) \div c.fps],
                pic,
                modify_qscale(c, rce, st.q, e.picture_number,
                              st.rcc.buffer_index),
                dry_run)
        Blur(rce, r3, d) ==
            Finish(rce, ShortTermBlur(c,
                [r3 EXCEPT !.last_qscale_for = d.last_qscale_for,
                           !.last_non_b_pict_type = d.last_non_b_pict_type],
                pic.pict_type, d.q))
        Limit(rce, g) ==
            IF g.ret < 0 THEN [ret_fp |-> -1 * FP, rcc |-> g.rcc]
            ELSE Blur(rce, g.rcc,
                      get_diff_limited_q(c, g.rcc.last_qscale_for,
                                         g.rcc.last_non_b_pict_type,
                                         pic.pict_type, g.ret))
        Scale(rce, rf) ==
            Limit(rce, get_qscale(c, AddComplexity(r, rce), rce, rf,
                                  e.picture_number))
        Predict(rce) ==
            Scale(rce, Pass1RateFactor(r, br_compensation(c, r, e, pic)))
    IN  Predict(LocalEntry(pic,
            predict_size(r.pred[pic.pict_type], FF_QP2LAMBDA * 2,
                         sqrt_fp(IF pic.pict_type = AV_PICTURE_TYPE_I
                                 THEN pic.mb_var_sum ELSE pic.mc_mb_var_sum))))

\* ff_rate_estimate_qscale(rcc, pic, dts_pic, picture_number, last_pict_type,
\* dry_run): the value returned and the context it leaves.
ff_rate_estimate_qscale(c, r, e, pic, dry_run) ==
    IF c.flags_pass2
    THEN EstimatePass2(c, UpdatePredictors(r, e, dry_run), e, pic, dry_run)
    ELSE EstimatePass1(c, UpdatePredictors(r, e, dry_run), e, pic, dry_run)

-----------------------------------------------------------------------------
(* Specification SpecVbv: the encoder calling ff_vbv_update after each     *)
(* coded frame, for any buffer configuration and any frame sizes.          *)

VbvBufferSizes == {0, 4, 40, 1000}
VbvRatesPerFrame == {0, 1, 9, 300}
VbvFrameSizes == {0, 3, 10, 5000}

\* rc_max_rate is a whole number of bits per frame, or 7 bits per second
\* more (max_rate is then truncated when it is passed to av_clip).
VbvConfigs ==
    { [DefaultCfg EXCEPT !.rc_buffer_size = bs,
                         !.rc_min_rate = r[1] * 25, !.rc_max_rate = r[2] * 25 + odd,
                         !.codec_mpeg4 = m4] :
        bs \in VbvBufferSizes,
        r \in {x \in VbvRatesPerFrame \X VbvRatesPerFrame : x[1] <= x[2]},
        odd \in {0, 7},
        m4 \in BOOLEAN }

InitVbv ==
    /\ cfg \in VbvConfigs
    /\ \E b \in {0, cfg.rc_buffer_size \div 2, cfg.rc_buffer_size} :
           rcc = [RccZero EXCEPT !.buffer_index = b]
    /\ pc = "coding"
    /\ loop = << >>
    /\ call = [op |-> "none"]
    /\ enc = EncStart

\* One call of ff_vbv_update(rcc, frame_size).
VbvUpdateCall(frame_size) ==
    /\ pc = "coding"
    /\ LET Return(v) ==
               /\ rcc' = [rcc EXCEPT !.buffer_index = v.buffer_index]
               /\ call' = [op |-> "vbv_update", frame_size |-> frame_size,
                           before |-> rcc.buffer_index, ret |-> v.ret]
       IN  Return(VbvUpdate(cfg, rcc.buffer_index, frame_size))
    /\ UNCHANGED <<cfg, pc, loop, enc>>

NextVbv == \E fs \in VbvFrameSizes : VbvUpdateCall(fs)

SpecVbv == InitVbv /\ [][NextVbv]_vars

\* C1: after every ff_vbv_update call, for every buffer size > 0 and rates
\* 0 <= min_rate <= max_rate, buffer_index lies within [0, rc_buffer_size].
C1_BufferIndexInRange ==
    (call.op = "vbv_update" /\ cfg.rc_buffer_size > 0)
        => (0 <= rcc.buffer_index /\ rcc.buffer_index <= cfg.rc_buffer_size)

\* A call of ff_vbv_update with rc_buffer_size = 1000 and
\* rc_min_rate = rc_max_rate = 0 has returned.
VbvZeroRatesCall ==
    /\ call.op = "vbv_update"
    /\ cfg.rc_buffer_size = 1000
    /\ cfg.rc_min_rate = 0 /\ cfg.rc_max_rate = 0

\* C15: with rc_buffer_size = 1000 and rc_min_rate = rc_max_rate = 0,
\* ff_vbv_update is a no-op for every frame size: it returns 0 stuffing bytes
\* and does not change buffer_index.
C15_ZeroRatesNoOp ==
    VbvZeroRatesCall => (call.ret = 0 /\ rcc.buffer_index = call.before)

\* C15 amended: with rc_buffer_size = 1000, rc_min_rate = rc_max_rate = 0 and
\* buffer_index starting within [0, 1000], ff_vbv_update returns 0 stuffing
\* bytes for every frame size, and buffer_index is drained by the frame size
\* (stopping at 0) and never refilled.
C15_ZeroRatesDrainOnly ==
    VbvZeroRatesCall =>
        /\ call.ret = 0
        /\ rcc.buffer_index =
               IF call.before >= call.frame_size
               THEN call.before - call.frame_size ELSE 0

\* A frame larger than the buffer content has emptied the buffer.
C15_Witness ==
    /\ VbvZeroRatesCall
    /\ call.frame_size > call.before /\ call.before > 0
    /\ call.ret = 0 /\ rcc.buffer_index = 0

-----------------------------------------------------------------------------
(* Specification SpecInit: one encoding session's ff_rate_control_init     *)
(* (the loop of init_pass2 one iteration per step) and the                 *)
(* ff_rate_control_uninit of session teardown.                             *)

MaxEntries == 2

\* A completely parsed stats line: picture type, texture bits, the
\* quantizer-independent bits (mv + misc), and the rate equation's value.
StatLine(t, tex, cbits, eq, nan) ==
    [ e |-> 14, pict_type |-> t, qscale |-> FF_QP2LAMBDA * 2,
      i_tex_bits |-> IF t = AV_PICTURE_TYPE_I THEN tex ELSE 0,
      p_tex_bits |-> IF t = AV_PICTURE_TYPE_I THEN 0 ELSE tex,
      mv_bits |-> cbits \div 4, misc_bits |-> cbits - cbits \div 4,
      eq |-> eq, eq_nan |-> nan ]

\* Lines of every picture type, one on which the rate equation is NaN, one
\* with "type:7", one that stops before "hbits:" (13 fields converted) and
\* one without "in:" (nothing converted).
StatLines ==
    { StatLine(AV_PICTURE_TYPE_I, 200, 20, 40, FALSE),
      StatLine(AV_PICTURE_TYPE_P, 100, 12, 20, FALSE),
      StatLine(AV_PICTURE_TYPE_B, 60, 8, 10, FALSE),
      StatLine(AV_PICTURE_TYPE_S, 100, 50, 20, FALSE),
      StatLine(AV_PICTURE_TYPE_P, 100, 12, 0, TRUE),
      StatLine(7, 100, 12, 20, FALSE),
      [StatLine(AV_PICTURE_TYPE_P, 100, 12, 20, FALSE) EXCEPT !.e = 13],
      [StatLine(AV_PICTURE_TYPE_B, 60, 8, 10, FALSE) EXCEPT !.e = 0] }

StatsInputs ==
    UNION { [1..n -> StatLines] : n \in 1..MaxEntries }

\* Bits per frame of the requested bitrate (bit_rate / fps).
BudgetsPerFrame == {5, 15, 60, 400}

Pass2Variants ==
    LET d == [DefaultCfg EXCEPT !.flags_pass2 = TRUE]
    IN  { d,
          [d EXCEPT !.qblur_x2 = 3],
          [d EXCEPT !.qblur_x2 = 0, !.rc_overrides = << <<0, 0, 300>> >>],
          [d EXCEPT !.rc_overrides = << <<0, 0, 300>>, <<0, 1, -50>> >>],
          [d EXCEPT !.rc_overrides = << <<0, 1, -50>>, <<1, 5>> >>],
          [d EXCEPT !.rc_buffer_size = 400, !.rc_max_rate = 80 * 25,
                    !.rc_min_rate = 80 * 25, !.codec_mpeg4 = TRUE],
          [d EXCEPT !.rc_buffer_size = 2000, !.rc_max_rate = 300 * 25,
                    !.max_b_frames = 1, !.i_quant_factor_c = 80],
          [d EXCEPT !.rc_eq_ok = FALSE] }

Pass1Variants ==
    { [DefaultCfg EXCEPT !.qblur_x2 = q, !.rc_overrides = o, !.rc_eq_ok = ok] :
        q \in 0..3, o \in {<< >>, << <<0, 1, -50>>, <<1, 5>> >>},
        ok \in BOOLEAN }

InitConfigs ==
    { [v EXCEPT !.stats_in = st, !.bit_rate = b * v.fps] :
        v \in Pass2Variants, st \in StatsInputs, b \in BudgetsPerFrame }
    \cup Pass1Variants

InitSession ==
    /\ cfg \in InitConfigs
    /\ rcc = RccZero
    /\ pc = "start"
    /\ loop = << >>
    /\ call = [op |-> "none"]
    /\ enc = EncStart

\* ff_rate_control_init(avctx, rcc), up to its return, to the loop of
\* init_pass2, or to an operation with undefined behaviour and one of its
\* outcomes.
RateControlInit ==
    /\ pc = "start"
    /\ LET Return(p) ==
               /\ rcc' = p.rcc
               /\ loop' = p.loop
               /\ pc' \in IF p.undefined # "none"
                           THEN UndefinedOutcomes(p.undefined)
                           ELSE IF ~p.done THEN {"pass2_loop"}
                           ELSE IF p.ret < 0 THEN {"init_failed"} ELSE {"ready"}
               /\ call' = IF p.undefined = "pict_type" \/ ~p.done
                          THEN [op |-> "init_pass2",
                                pict_types |-> PictTypesIndexed(p.rcc)]
                          ELSE IF pc' = "crashed" THEN [op |-> "assert"]
                          ELSE [op |-> "init", ret |-> p.ret]
       IN  Return(InitPrologue(cfg, rcc))
    /\ UNCHANGED <<cfg, enc>>

\* One iteration of the rate-factor search.
Pass2Iterate ==
    /\ pc = "pass2_loop"
    /\ StepAboveEps(loop.step_e)
    /\ LET Store(st) == rcc' = st.rcc /\ loop' = st.loop
       IN  Store(Pass2Step(cfg, rcc, loop))
    /\ UNCHANGED <<cfg, pc, call, enc>>

\* The loop exit, the checks of lines 483-506, and the return of
\* ff_rate_control_init.
Pass2Finish ==
    /\ pc = "pass2_loop"
    /\ ~StepAboveEps(loop.step_e)
    /\ LET Return(e) ==
               /\ rcc' = e.rcc
               /\ pc' = IF e.ret < 0 THEN "init_failed" ELSE "ready"
               /\ call' = [op |-> "init", ret |-> e.ret]
       IN  Return(InitEpilogue(cfg, rcc, loop))
    /\ UNCHANGED <<cfg, loop, enc>>

\* ff_rate_control_uninit(rcc) at session teardown.  Freeing the expression
\* a second time is undefined: the allocator aborts or goes on.
RateControlUninit ==
    /\ pc \in {"ready", "init_failed"}
    /\ rcc' = ff_rate_control_uninit(rcc)
    /\ pc' \in UninitOutcomes(rcc)
    /\ call' = [op |-> "uninit"]
    /\ UNCHANGED <<cfg, loop, enc>>

NextInit == RateControlInit \/ Pass2Iterate \/ Pass2Finish \/ RateControlUninit

SpecInit == InitSession /\ [][NextInit]_vars

\* ff_rate_control_init has returned.
InitReturned == pc \in {"ready", "init_failed"} /\ call.op = "init"

\* The loop of init_pass2 has run to its end in this session.
Pass2LoopRan == InitReturned /\ loop # << >>

\* The last trial's expected_bits is within 1% of all_available_bits.
PlanWithinOnePercent ==
    /\ FFABS(loop.expected_bits_fp - loop.all_available_bits * FP)
           <= loop.all_available_bits * FP
    /\ FFABS(loop.expected_bits_fp - loop.all_available_bits * FP) * 100
           <= loop.all_available_bits * FP

\* C3 as stated: whenever two-pass init returns success, the total predicted
\* bits of the plan are within 1% of all_available_bits.
C3_SuccessWithinOnePercent ==
    (Pass2LoopRan /\ call.ret = 0) => PlanWithinOnePercent

\* C3 amended: whenever two-pass init returns success, the total predicted
\* bits of the plan are at most the budget when no trial backed off
\* (toobig = 0; the total may then be far below the budget), and within 1%
\* of the budget when some trial backed off.
C3_SuccessWithinBudget ==
    (Pass2LoopRan /\ call.ret = 0) =>
        IF loop.toobig = 0
        THEN loop.expected_bits_fp <= loop.all_available_bits * FP
        ELSE PlanWithinOnePercent

C3_Witness ==
    /\ Pass2LoopRan /\ call.ret = 0
    /\ loop.toobig > 0 /\ loop.toobig < 40
    /\ PlanWithinOnePercent

\* C4: the rate-factor search of init_pass2 performs exactly 40 trials
\* whatever the data, and the back-off counter never exceeds 40.
C4_FortyTrials ==
    loop # << >> =>
        /\ loop.trials <= 40
        /\ loop.toobig <= loop.trials
        /\ loop.step_e = 16 - loop.trials
        /\ InitReturned => loop.trials = 40

C4_Witness ==
    Pass2LoopRan /\ loop.trials = 40 /\ loop.toobig \in 1..39

\* C5: when every one of the 40 trials predicts more bits than the budget
\* (toobig = 40), init_pass2 fails and ff_rate_control_init returns failure.
C5_AllTooBigFails ==
    (Pass2LoopRan /\ loop.toobig = 40) => (call.ret < 0 /\ pc = "init_failed")

C5_Witness ==
    Pass2LoopRan /\ loop.toobig = 40 /\ call.ret < 0 /\ pc = "init_failed"

\* C6: in two-pass init, if the rate equation evaluates to NaN for some
\* frame, ff_rate_control_init returns failure.
C6_NanFailsInit ==
    (InitReturned /\ cfg.flags_pass2 /\
     \E k \in 1..Len(cfg.stats_in) : cfg.stats_in[k].eq_nan)
        => call.ret < 0

\* C8: ff_rate_control_init returns failure for a malformed override string
\* (an item with fewer than three integers), in single-pass and in two-pass
\* mode.
C8_MalformedOverrideFailsInit ==
    (InitReturned /\
     \E k \in 1..Len(cfg.rc_overrides) : Len(cfg.rc_overrides[k]) < 3)
        => call.ret < 0

\* C9 as stated: ff_rate_control_init returns failure whenever qblur > 1.0,
\* whether or not the PASS2 flag is set.
C9_QblurAboveOneFails ==
    (InitReturned /\ cfg.qblur_x2 > 2) => call.ret < 0

\* C9 amended: ff_rate_control_init returns failure whenever qblur > 1.0 and
\* the PASS2 flag is not set; in two-pass mode qblur is not checked.
C9_QblurAboveOneFailsSinglePass ==
    (InitReturned /\ cfg.qblur_x2 > 2 /\ ~cfg.flags_pass2) => call.ret < 0

C9_Witness ==
    /\ InitReturned /\ cfg.qblur_x2 > 2 /\ ~cfg.flags_pass2
    /\ cfg.rc_eq_ok /\ call.ret < 0

\* The sum of mv_bits + misc_bits over all the entries of a two-pass
\* session: the stats lines from i on and the max_b_frames skipped entries.
RECURSIVE StatsConstBits(_)
StatsConstBits(i) ==
    IF i > Len(cfg.stats_in) THEN cfg.max_b_frames * (cfg.mb_num + 10)
    ELSE cfg.stats_in[i].mv_bits + cfg.stats_in[i].misc_bits
         + StatsConstBits(i + 1)

\* C10: in two-pass mode, when the budget bit_rate * num_entries / fps is
\* smaller than the sum of mv_bits + misc_bits over all entries,
\* ff_rate_control_init fails, and before any rate-factor trial is run.
C10_LowBudgetFailsBeforeTrials ==
    (InitReturned /\ cfg.flags_pass2 /\
     (cfg.bit_rate * (Len(cfg.stats_in) + cfg.max_b_frames)) \div cfg.fps
         < StatsConstBits(1))
        => (call.ret < 0 /\ loop = << >>)

\* Some line of the stats is damaged: not all 14 fields can be parsed.
StatsDamaged ==
    /\ cfg.flags_pass2 /\ cfg.rc_eq_ok
    /\ \E i \in 1..Len(cfg.stats_in) : StatsLineDamaged(cfg.stats_in[i])

\* C22: in two-pass mode a stats line from which not all 14 fields can be
\* parsed makes ff_rate_control_init return failure, and the rate-factor
\* search is not run.
C22_DamagedStatsFailInit ==
    (StatsDamaged /\ pc \notin {"start", "closed"})
        => /\ pc = "init_failed"
           /\ call = [op |-> "init", ret |-> -1]
           /\ loop = << >>

\* The later frames of the picture type of frame i, and the nearest one.
LaterSameType(i) ==
    { j \in (i + 1)..Len(loop.limited) :
        rcc.entry[j].new_pict_type = rcc.entry[i].new_pict_type }

NearestLater(i) == CHOOSE j \in LaterSameType(i) : \A k \in LaterSameType(i) : j <= k

\* C25: within each trial of init_pass2 the diff-limiter runs in descending
\* frame order: after it the qscale of every P or B frame is within
\* FF_QP2LAMBDA * max_qdiff of the qscale of the nearest later frame of the
\* same picture type, and the last frame of each type is within that
\* distance of its own qscale as get_qscale gave it.
C25_LimitedAgainstLaterFrames ==
    (pc \in {"pass2_loop", "ready"} /\ loop # << >> /\ loop.trials > 0)
        => \A i \in 1..Len(loop.limited) :
               rcc.entry[i].new_pict_type \in {AV_PICTURE_TYPE_P, AV_PICTURE_TYPE_B}
                   => IF LaterSameType(i) = {}
                      THEN FFABS(loop.limited[i] - loop.found[i]) <= MaxDiffFp(cfg)
                      ELSE FFABS(loop.limited[i] - loop.limited[NearestLater(i)])
                               <= MaxDiffFp(cfg)

\* A trial in which the limiter moved the first of two P frames to exactly
\* max_qdiff from the second, which kept its own qscale.
C25_Witness ==
    /\ pc = "pass2_loop" /\ loop.trials > 0 /\ Len(loop.limited) = 2
    /\ rcc.entry[1].new_pict_type = AV_PICTURE_TYPE_P
    /\ rcc.entry[2].new_pict_type = AV_PICTURE_TYPE_P
    /\ loop.limited[2] = loop.found[2]
    /\ loop.limited[1] # loop.found[1]
    /\ FFABS(loop.limited[1] - loop.limited[2]) = MaxDiffFp(cfg)

C29_PictTypeIndexInRange ==
    call.op = "init_pass2" => call.pict_types \subseteq 0..4

\* C30: over any sequence of ff_rate_control_init and ff_rate_control_uninit
\* calls each owned resource is released at most once; ff_rate_control_uninit
\* at teardown after a failed two-pass init releases nothing a second time.
C30_ReleasedAtMostOnce ==
    /\ rcc.rc_eq_eval # "freed_twice"
    /\ rcc.entry_state \in {"null", "live"}
    /\ rcc.rc_override_state \in {"null", "live"}

-----------------------------------------------------------------------------
(* Specification SpecEst: an encoding session.  After                      *)
(* ff_rate_control_init the encoder takes pictures one at a time; for each *)
(* it calls ff_rate_estimate_qscale, first with dry_run set any number of  *)
(* times (trial encodes), then once without; it then codes the picture and *)
(* calls ff_vbv_update with the coded size.  A negative estimate aborts    *)
(* the encode.                                                             *)

MaxFrames == 4
MaxDryRuns == 1

\* A picture handed to the encoder: its type, variance sums, pts, the value
\* of the rate equation on it, and the size it takes once coded.
Picture(t, mbv, mcv, pts, eq, nan, size) ==
    [ pict_type |-> t, mb_var_sum |-> mbv, mc_mb_var_sum |-> mcv, pts |-> pts,
      eq |-> eq, eq_nan |-> nan, frame_bits |-> size ]

Pictures ==
    { Picture(AV_PICTURE_TYPE_I, 400, 900, AV_NOPTS_VALUE, 40, FALSE, 900),
      Picture(AV_PICTURE_TYPE_P, 400, 144, AV_NOPTS_VALUE, 20, FALSE, 120),
      Picture(AV_PICTURE_TYPE_B, 400, 64, 1, 10, FALSE, 30),
      Picture(AV_PICTURE_TYPE_P, 400, 144, AV_NOPTS_VALUE, 0, TRUE, 120) }

\* The stats of a first pass over MaxFrames pictures I P B P B ...
EstStats ==
    [ i \in 1..MaxFrames |->
        IF i = 1 THEN StatLine(AV_PICTURE_TYPE_I, 200, 20, 40, FALSE)
        ELSE IF i % 2 = 0 THEN StatLine(AV_PICTURE_TYPE_P, 100, 12, 20, FALSE)
        ELSE StatLine(AV_PICTURE_TYPE_B, 60, 8, 10, FALSE) ]

EstConfigs ==
    { [DefaultCfg EXCEPT !.flags_pass2 = TRUE, !.stats_in = EstStats,
                         !.bit_rate = 60 * 25],
      [DefaultCfg EXCEPT !.flags_pass2 = TRUE, !.stats_in = EstStats,
                         !.bit_rate = 60 * 25, !.rc_buffer_size = 2000,
                         !.rc_max_rate = 300 * 25,
                         !.rc_initial_buffer_occupancy = 1500,
                         !.bit_rate_tolerance = 100],
      DefaultCfg,
      [DefaultCfg EXCEPT !.qblur_x2 = 2, !.adaptive_quant = TRUE,
                         !.rc_overrides = << <<1, 1, -50>> >>],
      [DefaultCfg EXCEPT !.rc_buffer_size = 2000, !.rc_max_rate = 300 * 25,
                         !.rc_min_rate = 20 * 25,
                         !.rc_initial_buffer_occupancy = 1500],
      [DefaultCfg EXCEPT !.rc_overrides = << <<0, 1, -50>>, <<1, 5>> >>] }

InitEst ==
    /\ cfg \in EstConfigs
    /\ rcc = RccZero
    /\ pc = "start"
    /\ loop = << >>
    /\ call = [op |-> "none"]
    /\ enc = EncStart

\* The encoder takes the next picture.  In two-pass mode the picture has an
\* entry, and a picture that is not an I-frame has the type planned for it
\* (the asserts of lines 929-930 and 951-952).
NewPicture(pic) ==
    /\ pc = "ready"
    /\ enc.pic = << >>
    /\ enc.picture_number < MaxFrames
    /\ cfg.flags_pass2 =>
           /\ enc.picture_number < rcc.num_entries
           /\ \/ pic.pict_type = AV_PICTURE_TYPE_I
              \/ pic.pict_type = rcc.entry[enc.picture_number + 1].new_pict_type
    /\ enc' = [enc EXCEPT !.pic = pic, !.dry_runs = 0, !.estimated = FALSE]
    /\ UNCHANGED <<cfg, rcc, pc, loop, call>>

\* One call of ff_rate_estimate_qscale for the current picture.
EstimateQscale(dry_run) ==
    /\ pc = "ready"
    /\ enc.pic # << >>
    /\ ~enc.estimated
    /\ dry_run => enc.dry_runs < MaxDryRuns
    /\ LET Return(res) ==
               /\ rcc' = res.rcc
               /\ call' = [op |-> "estimate", dry_run |-> dry_run,
                           picture_number |-> enc.picture_number,
                           ret_fp |-> res.ret_fp]
               /\ pc' = IF res.ret_fp < 0 THEN "aborted" ELSE "ready"
       IN  Return(ff_rate_estimate_qscale(cfg, rcc, enc, enc.pic, dry_run))
    /\ enc' = IF dry_run THEN [enc EXCEPT !.dry_runs = @ + 1]
              ELSE [enc EXCEPT !.estimated = TRUE]
    /\ UNCHANGED <<cfg, loop>>

\* The picture is coded with the estimated quantizer, and ff_vbv_update is
\* called with its size.
FrameCoded ==
    /\ pc = "ready"
    /\ enc.pic # << >>
    /\ enc.estimated
    /\ LET Return(v) ==
               /\ rcc' = [rcc EXCEPT !.buffer_index = v.buffer_index]
               /\ call' = [op |-> "vbv_update",
                           frame_size |-> enc.pic.frame_bits,
                           before |-> rcc.buffer_index, ret |-> v.ret]
       IN  Return(VbvUpdate(cfg, rcc.buffer_index, enc.pic.frame_bits))
    /\ enc' = [enc EXCEPT !.picture_number = @ + 1,
                          !.total_bits = @ + enc.pic.frame_bits,
                          !.frame_bits = enc.pic.frame_bits,
                          !.last_pict_type = enc.pic.pict_type,
                          !.pic = << >>]
    /\ UNCHANGED <<cfg, pc, loop>>

\* ff_rate_control_uninit(rcc) when the encoder is closed.
EncodeEnd ==
    /\ pc \in {"ready", "init_failed", "aborted"}
    /\ enc.pic = << >> \/ pc = "aborted"
    /\ rcc' = ff_rate_control_uninit(rcc)
    /\ pc' \in UninitOutcomes(rcc)
    /\ call' = [op |-> "uninit"]
    /\ UNCHANGED <<cfg, loop, enc>>

NextEst ==
    \/ RateControlInit
    \/ Pass2Iterate
    \/ Pass2Finish
    \/ \E pic \in Pictures : NewPicture(pic)
    \/ \E dry_run \in BOOLEAN : EstimateQscale(dry_run)
    \/ FrameCoded
    \/ EncodeEnd

SpecEst == InitEst /\ [][NextEst]_vars

\* C2: a call of ff_rate_estimate_qscale with dry_run set leaves the
\* rate-control context unchanged, in single-pass and in two-pass mode.
C2_DryRunLeavesContext == [][EstimateQscale(TRUE) => rcc' = rcc]_vars

\* C7: in single-pass mode, when the rate equation evaluates to NaN on the
\* current picture, ff_rate_estimate_qscale returns -1.
C7_NanReturnsSentinel ==
    (call.op = "estimate" /\ ~cfg.flags_pass2 /\ enc.pic # << >> /\
     enc.pic.eq_nan)
        => call.ret_fp = -1 * FP

C7_Witness ==
    /\ call.op = "estimate" /\ ~cfg.flags_pass2
    /\ enc.pic # << >> /\ enc.pic.eq_nan
    /\ call.ret_fp = -1 * FP /\ pc = "aborted"

\* C16: when the PASS2 flag is set, no call of ff_rate_estimate_qscale
\* modifies any Predictor (coeff or count of any pred[] slot).
C16_Pass2KeepsPredictors ==
    [][((EstimateQscale(TRUE) \/ EstimateQscale(FALSE)) /\ cfg.flags_pass2)
           => rcc'.pred = rcc.pred]_vars

\* C26: after a successful two-pass init, no call of ff_rate_estimate_qscale
\* modifies any field of any RateControlEntry.
C26_Pass2KeepsEntries ==
    [][((EstimateQscale(TRUE) \/ EstimateQscale(FALSE)) /\ cfg.flags_pass2)
           => rcc'.entry = rcc.entry]_vars

\* A two-pass estimate whose bitrate compensation moved the quantizer away
\* from the planned new_qscale of the entry it read.
C26_Witness ==
    /\ call.op = "estimate" /\ cfg.flags_pass2 /\ pc = "ready"
    /\ Len(rcc.entry) = MaxFrames
    /\ rcc.entry[call.picture_number + 1].new_qscale_fp > 0
    /\ call.ret_fp > rcc.entry[call.picture_number + 1].new_qscale_fp + 1 * FP

\* C28: every value returned by ff_rate_estimate_qscale is the negative
\* error sentinel or lies within [qmin, qmax] of get_qminmax for the
\* current picture type, in single-pass and two-pass mode.
C28_ReturnWithinQminmax ==
    (call.op = "estimate" /\ enc.pic # << >>)
        => \/ call.ret_fp = -1 * FP
           \/ /\ call.ret_fp >= get_qminmax(cfg, enc.pic.pict_type).qmin * FP
              /\ call.ret_fp <= get_qminmax(cfg, enc.pic.pict_type).qmax * FP

\* A two-pass estimate where new_qscale / br_compensation was above qmax
\* and qmax was returned.
C28_Witness ==
    /\ call.op = "estimate" /\ cfg.flags_pass2 /\ enc.pic # << >>
    /\ Len(rcc.entry) = MaxFrames
    /\ call.ret_fp = get_qminmax(cfg, enc.pic.pict_type).qmax * FP
    /\ LET br == br_compensation(cfg, rcc, enc, enc.pic)
       IN  SatMulDiv(rcc.entry[call.picture_number + 1].new_qscale_fp,
                     br.d, br.n) > call.ret_fp

-----------------------------------------------------------------------------
(* Specification SpecUnit: the functions of ratecontrol.c called one at a  *)
(* time on a context left by ff_rate_control_init, with arguments drawn    *)
(* from small sets.  loop.calls counts the calls made.                     *)

MaxCalls == 3

\* Option sets: the defaults with the override string "0,1,5/2,3,-50"; I
\* chained from P and B independent of P with an offset below every
\* qscale, with two items covering frame 1; factors and offsets that push
\* the scaled quantizer range out of [1, FF_LAMBDA_MAX], with a quality
\* factor after a forced qscale; an override item with q = 0.
UnitConfigs ==
    { [DefaultCfg EXCEPT !.rc_overrides = << <<0, 1, 5>>, <<2, 3, -50>> >>],
      [DefaultCfg EXCEPT !.i_quant_factor_c = 80, !.b_quant_factor_c = -125,
                         !.b_quant_offset_fp = -2000 * FP,
                         !.rc_overrides = << <<0, 2, -50>>, <<1, 1, 7>> >>],
      [DefaultCfg EXCEPT !.i_quant_factor_c = -3100, !.b_quant_factor_c = 10,
                         !.b_quant_offset_fp = -500 * FP, !.max_qdiff = 1,
                         !.rc_overrides = << <<1, 2, 3>>, <<0, 3, -25>> >>],
      [DefaultCfg EXCEPT !.rc_overrides = << <<0, 1, 0>>, <<3, 3, -50>> >>] }

\* Entries as init_pass2 leaves them before the search (line 374:
\* new_pict_type = pict_type), one per picture type.
UnitEntries ==
    { [StatsEntry(DefaultCfg, l) EXCEPT !.new_pict_type = l.pict_type] :
        l \in { StatLine(AV_PICTURE_TYPE_I, 200, 20, 40, FALSE),
                StatLine(AV_PICTURE_TYPE_P, 100, 12, 20, FALSE),
                StatLine(AV_PICTURE_TYPE_B, 0, 8, 10, FALSE) } }

UnitPictTypes == {AV_PICTURE_TYPE_I, AV_PICTURE_TYPE_P, AV_PICTURE_TYPE_B}
UnitQscales == {1 * FP, FF_QP2LAMBDA * 5 * FP, 700 * FP, 2000 * FP}
UnitRateFactors == {[int |-> 1, frac |-> 0], [int |-> 0, frac |-> RfUnit \div 2]}
UnitFrameNums == 0..3
UnitTotalBits == {0, 1000, 4999, 5000, 9000}
UnitWantedBits == {0, 1000}
UnitExactQscales == {[n |-> 1, d |-> 1], [n |-> 7, d |-> 2], [n |-> 3658, d |-> 1]}
UnitVariances == {5 * FP, 10 * FP - 1, 10 * FP, 20 * FP}
UnitSizes == {0, 120}

InitUnit ==
    /\ cfg \in UnitConfigs
    /\ rcc = InitCommon(cfg, RccZero)
    /\ pc = "unit"
    /\ loop = [calls |-> 0]
    /\ call = [op |-> "none"]
    /\ enc = EncStart

UnitCall ==
    /\ pc = "unit"
    /\ loop.calls < MaxCalls
    /\ loop' = [calls |-> loop.calls + 1]
    /\ UNCHANGED <<cfg, pc, enc>>

\* q = get_diff_limited_q(rcc, rce, q) for an entry of type pict_type.
DiffLimitCall(pict_type, q_fp) ==
    /\ UnitCall
    /\ LET Return(d) ==
               /\ rcc' = [rcc EXCEPT !.last_qscale_for = d.last_qscale_for,
                                     !.last_non_b_pict_type = d.last_non_b_pict_type]
               /\ call' = [op |-> "get_diff_limited_q", pict_type |-> pict_type,
                           q |-> q_fp,
                           last_q |-> rcc.last_qscale_for[pict_type],
                           last_non_b_pict_type |-> rcc.last_non_b_pict_type,
                           ret |-> d.q]
       IN  Return(get_diff_limited_q(cfg, rcc.last_qscale_for,
                                     rcc.last_non_b_pict_type, pict_type, q_fp))

\* q = get_qscale(rcc, rce, rate_factor, frame_num).
GetQscaleCall(rce, rf, frame_num) ==
    /\ UnitCall
    /\ LET Return(g) ==
               /\ rcc' = g.rcc
               /\ call' = [op |-> "get_qscale", rce |-> rce, rf |-> rf,
                           frame_num |-> frame_num, ret |-> g.ret,
                           bits |-> g.bits]
       IN  Return(get_qscale(cfg, rcc, rce, rf, frame_num))

\* get_qminmax(rcc, pict_type, &qmin, &qmax).
QminmaxCall(pict_type) ==
    /\ UnitCall
    /\ LET Return(mm) ==
               call' = [op |-> "get_qminmax", pict_type |-> pict_type,
                        qmin |-> mm.qmin, qmax |-> mm.qmax]
       IN  Return(get_qminmax(cfg, pict_type))
    /\ UNCHANGED rcc

\* Lines 942-945 of ff_rate_estimate_qscale for given s->total_bits and
\* wanted_bits.
BrCompensationCall(total_bits, wanted_bits) ==
    /\ UnitCall
    /\ call' = [op |-> "br_compensation", total_bits |-> total_bits,
                wanted_bits |-> wanted_bits,
                br |-> BrFloor(cfg, total_bits - wanted_bits)]
    /\ UNCHANGED rcc

\* bits2qp(rce, qp2bits(rce, qp)).
RoundTripCall(rce, qp) ==
    /\ UnitCall
    /\ LET Return(bits) ==
               call' = [op |-> "round_trip", rce |-> rce, qp |-> qp,
                        bits |-> bits, ret |-> bits2qp_exact(rce, bits)]
       IN  Return(qp2bits_exact(rce, qp))
    /\ UNCHANGED rcc

\* update_predictor(&rcc->pred[pict_type], q, var, size).
UpdatePredictorCall(pict_type, q_fp, var_fp, size) ==
    /\ UnitCall
    /\ rcc' = [rcc EXCEPT !.pred[pict_type] =
                              update_predictor(@, q_fp, var_fp, size)]
    /\ call' = [op |-> "update_predictor", pict_type |-> pict_type,
                q |-> q_fp, var |-> var_fp, size |-> size,
                before |-> rcc.pred[pict_type]]

NextUnit ==
    \/ \E t \in UnitPictTypes, q \in UnitQscales : DiffLimitCall(t, q)
    \/ \E rce \in UnitEntries, rf \in UnitRateFactors, n \in UnitFrameNums :
           GetQscaleCall(rce, rf, n)
    \/ \E t \in UnitPictTypes : QminmaxCall(t)
    \/ \E tb \in UnitTotalBits, wb \in UnitWantedBits : BrCompensationCall(tb, wb)
    \/ \E rce \in UnitEntries, qp \in UnitExactQscales : RoundTripCall(rce, qp)
    \/ \E t \in {AV_PICTURE_TYPE_I, AV_PICTURE_TYPE_P},
          q \in {FF_QP2LAMBDA * 2 * FP}, v \in UnitVariances, sz \in UnitSizes :
           UpdatePredictorCall(t, q, v, sz)

SpecUnit == InitUnit /\ [][NextUnit]_vars

\* The qscale returned by the last get_diff_limited_q call is within
\* FF_QP2LAMBDA * max_qdiff of last_qscale_for[pict_type] before the call.
WithinMaxDiff ==
    FFABS(call.ret - call.last_q) <= FF_QP2LAMBDA * cfg.max_qdiff * FP

\* C11: each qscale returned by get_diff_limited_q differs by at most
\* FF_QP2LAMBDA * max_qdiff from last_qscale_for[type] before the call, for
\* every picture type and any sequence of calls.
C11_DiffLimited ==
    call.op = "get_diff_limited_q" => WithinMaxDiff

\* C11 amended: the bound holds for every picture type other than I, and
\* for an I picture when the last non-B picture was an I picture; an I
\* picture that follows another type is not limited.
C11_DiffLimitedUnlessIAfterOther ==
    (/\ call.op = "get_diff_limited_q"
     /\ \/ call.pict_type # AV_PICTURE_TYPE_I
        \/ call.last_non_b_pict_type = AV_PICTURE_TYPE_I)
        => WithinMaxDiff

\* A P picture asked for less than the limit allows and was held at
\* last_qscale_for[P] - maxdiff.
C11_Witness ==
    /\ call.op = "get_diff_limited_q"
    /\ call.pict_type = AV_PICTURE_TYPE_P
    /\ call.q < call.last_q - FF_QP2LAMBDA * cfg.max_qdiff * FP
    /\ call.ret = call.last_q - FF_QP2LAMBDA * cfg.max_qdiff * FP

\* The items of the override string that cover the frame of the last
\* get_qscale call, and the last of them.
CoveringItems ==
    { k \in 1..Len(cfg.rc_overrides) :
        /\ cfg.rc_overrides[k][1] <= call.frame_num
        /\ call.frame_num <= cfg.rc_overrides[k][2] }

LastCovering == CHOOSE k \in CoveringItems : \A j \in CoveringItems : j <= k

\* What the last get_qscale call gives with the override string replaced
\* by the items its frame is given.
QscaleWithItems(items) ==
    get_qscale([cfg EXCEPT !.rc_overrides = items], rcc, call.rce, call.rf,
               call.frame_num)

\* The last get_qscale call returned a quantizer, and exactly one override
\* item covers its frame.
OneItemCovers ==
    /\ call.op = "get_qscale" /\ call.ret >= 0
    /\ Cardinality(CoveringItems) = 1

\* C12: with an override item (start, end, q), q > 0, get_qscale returns the
\* forced qscale q for every frame start <= n <= end, whatever the rate
\* equation's value, the rate factor and the picture type.
C12_ForcedQscaleReturned ==
    (OneItemCovers /\ cfg.rc_overrides[LastCovering][3] > 0)
        => call.ret = cfg.rc_overrides[LastCovering][3] * FP

\* C13: with an override item (start, end, q), q < 0, the bit estimate that
\* get_qscale converts to a quantizer is -q/100 times the estimate of the
\* same frame without the override for every frame start <= n <= end, and a
\* frame outside every override range gets the estimate and the quantizer it
\* gets without overrides.
C13_QualityFactorScalesBits ==
    /\ (OneItemCovers /\ cfg.rc_overrides[LastCovering][3] < 0)
           => call.bits = (QscaleWithItems(<< >>).bits
                           * (-cfg.rc_overrides[LastCovering][3])) \div 100
    /\ (call.op = "get_qscale" /\ call.ret >= 0 /\ CoveringItems = {})
           => /\ call.bits = QscaleWithItems(<< >>).bits
              /\ call.ret = QscaleWithItems(<< >>).ret

\* Frame 2 under "0,1,5/2,3,-50": half the estimate it has without it.
C13_Witness ==
    /\ OneItemCovers
    /\ cfg.rc_overrides[LastCovering][3] = -50
    /\ call.frame_num = cfg.rc_overrides[LastCovering][2] - 1
    /\ call.bits > 1 * FP
    /\ call.bits * 2 <= QscaleWithItems(<< >>).bits
    /\ QscaleWithItems(<< >>).bits <= call.bits * 2 + 1

\* C14: when several override items cover the same frame and the last of
\* them forces an absolute qscale, the bit estimate is the one of that
\* qscale, regardless of the earlier covering items.
C14_LastCoveringItemWins ==
    (/\ call.op = "get_qscale" /\ call.ret >= 0
     /\ Cardinality(CoveringItems) > 1
     /\ cfg.rc_overrides[LastCovering][3] > 0)
        => call.bits = QscaleWithItems(<< cfg.rc_overrides[LastCovering] >>).bits

\* Frame 1 under "0,2,-50/1,1,7": the estimate of qscale 7, which is not the
\* one the first item alone gives.
C14_Witness ==
    /\ call.op = "get_qscale" /\ call.ret >= 0
    /\ Cardinality(CoveringItems) > 1
    /\ cfg.rc_overrides[LastCovering][3] > 0
    /\ call.bits = qp2bits(call.rce, cfg.rc_overrides[LastCovering][3] * FP)
    /\ call.bits # QscaleWithItems(<< cfg.rc_overrides[1] >>).bits

\* C17: get_qminmax returns 1 <= qmin <= qmax <= FF_LAMBDA_MAX for every
\* picture type and every i/b quant factor and offset, given lmin <= lmax;
\* for a P picture the result is [lmin, lmax] clipped to [1, FF_LAMBDA_MAX].
C17_QminmaxOrderedInRange ==
    call.op = "get_qminmax" =>
        /\ 1 <= call.qmin /\ call.qmin <= call.qmax
        /\ call.qmax <= FF_LAMBDA_MAX
        /\ call.pict_type = AV_PICTURE_TYPE_P =>
               /\ call.qmin = Max(1, Min(FF_LAMBDA_MAX, cfg.lmin))
               /\ call.qmax = Max(1, Min(FF_LAMBDA_MAX, cfg.lmax))

\* An I or B range whose scaled bounds lie outside [1, FF_LAMBDA_MAX] (lmax
\* times 31 above it, or lmax / 10 - 500 below it) and was clipped.
C17_Witness ==
    /\ call.op = "get_qminmax"
    /\ \/ /\ call.pict_type = AV_PICTURE_TYPE_I
          /\ cfg.lmax * FFABS(cfg.i_quant_factor_c) > FF_LAMBDA_MAX * 100
          /\ call.qmax = FF_LAMBDA_MAX
       \/ /\ call.pict_type = AV_PICTURE_TYPE_B
          /\ cfg.lmax * FFABS(cfg.b_quant_factor_c) * FP
                 + cfg.b_quant_offset_fp * 100 < 0
          /\ call.qmin = 1 /\ call.qmax = 1

\* C18: the bitrate-compensation factor br_compensation used by
\* ff_rate_estimate_qscale is never below 0.001, for any total_bits,
\* wanted_bits and positive bit_rate_tolerance.
C18_BrCompensationFloor ==
    (call.op = "br_compensation" /\ cfg.bit_rate_tolerance > 0)
        => call.br.n * 1000 >= call.br.d

C20_LowVarianceKeepsPredictor ==
    (call.op = "update_predictor" /\ call.var < 10 * FP)
        => /\ rcc.pred[call.pict_type].coeff_fp = call.before.coeff_fp
           /\ rcc.pred[call.pict_type].count_fp = call.before.count_fp

\* A 120-bit frame with sqrt_var = 5 was offered to the predictor of its
\* type, which kept the coeff and count of initialisation.
C20_Witness ==
    /\ call.op = "update_predictor"
    /\ call.var = 5 * FP /\ call.size = 120
    /\ rcc.pred[call.pict_type] = call.before
    /\ call.before.count_fp = 1 * FP

\* C21: starting from the initial predictor state (count = 1, decay = 0.4),
\* after any sequence of update_predictor calls every predictor has
\* count >= decay.
C21_CountAtLeastDecay ==
    \A t \in 0..4 : rcc.pred[t].count_fp * 100 >= rcc.pred[t].decay_c * FP

\* A predictor after an effective update: count = 0.4 * 1 + 1.
C21_Witness ==
    /\ call.op = "update_predictor" /\ call.var >= 10 * FP
    /\ call.before.count_fp = 1 * FP
    /\ rcc.pred[call.pict_type].count_fp = (40 * FP) \div 100 + 1 * FP

\* C23: the bit estimate that get_qscale converts to a quantizer with
\* bits2qp is always at least 1, for every rate-equation output, rate factor
\* and override list, quality-factor overrides included.
C23_BitsAtLeastOne ==
    (call.op = "get_qscale" /\ call.ret >= 0) => call.bits >= 1 * FP

\* C24: every value returned by get_qscale is a negative error value (-1
\* for a NaN rate equation, AVERROR_INVALIDDATA for a bad override string)
\* or a qscale >= 1, for every picture type and every sign of the quant
\* factors and offsets.
C24_QscaleAtLeastOne ==
    call.op = "get_qscale"
        => \/ call.ret >= 1 * FP
           \/ call.ret \in {-1 * FP, AVERROR_INVALIDDATA_fp}

\* A B entry whose qscale times 1.25 plus the offset -2000 is below 1 was
\* returned as 1.
C24_Witness ==
    /\ call.op = "get_qscale"
    /\ call.rce.new_pict_type = AV_PICTURE_TYPE_B
    /\ cfg.b_quant_factor_c < 0
    /\ (bits2qp(call.rce, call.bits) * (-cfg.b_quant_factor_c)) \div 100
           + cfg.b_quant_offset_fp < 1 * FP
    /\ call.ret = 1 * FP

====
